---- MODULE Spec2Model ----
(***************************************************************************)
(* unity-cli (Server~/unity-cli.js): one call of sendRequest, the          *)
(* request/response correlator over a `ws` WebSocket.                      *)
(*                                                                         *)
(* The state is the closure of sendRequest (settled, timer, the socket's   *)
(* readyState, the promise's resolve/reject calls); the actions are the    *)
(* five callbacks it registers (setTimeout, open, message, error, close),  *)
(* each run to completion as the Node.js event loop runs them.             *)
(*                                                                         *)
(* The `ws` socket is the environment.  Its events are constrained only by *)
(* its readyState: 'open' is emitted once, from CONNECTING; 'message' only *)
(* on a connection that opened and has not emitted 'close'; 'error' moves  *)
(* the socket to CLOSING; 'close' is the last event of a socket and comes  *)
(* after 'open' or after 'error' or after a close() call; close()          *)
(* without arguments never raises and moves a socket that is not CLOSED    *)
(* to CLOSING (from CONNECTING it aborts the handshake, so no 'open'       *)
(* follows).  The URL is assumed well formed (new WebSocket does not       *)
(* raise).                                                                 *)
(*                                                                         *)
(* Spec, LiveSpec and RaisingSpec are sendRequest on its own; MainSpec is  *)
(* the program: parseArgs, main, the call, and the write to stdout and     *)
(* exit code that follow its outcome.                                      *)
(***************************************************************************)
EXTENDS Integers, Sequences, FiniteSets, TLC

(***************************************************************************)
(* Program constants.                                                      *)
(***************************************************************************)
COMMANDS ==
    {"execute_menu_item", "get_menu_items", "get_logs", "get_warn_error_logs",
     "recompile_scripts"}
WARN_ERROR_TYPES == {"Warning", "Error", "Exception", "Assert"}
DEFAULT_PORT == 8090
DEFAULT_HOST == "localhost"
DEFAULT_TIMEOUT == 10000
RECOMPILE_TIMEOUT == 60000

(***************************************************************************)
(* Bounds of the model.                                                    *)
(***************************************************************************)
\* inbound frames delivered to one call
MaxFrames == 3
\* command-line arguments after the command
MaxArgs == 4
\* entries of a reply's logs list
MaxLogs == 2

(***************************************************************************)
(* JavaScript values: undefined, null, strings and objects (records with   *)
(* a tag t; an absent property reads as undefined).                        *)
(***************************************************************************)
Undefined == [t |-> "undefined"]
Null == [t |-> "null"]
Str(s) == [t |-> "string", v |-> s]

Num(n) == [t |-> "number", v |-> n]
Bool(b) == [t |-> "boolean", v |-> b]
Array(items) == [t |-> "array", items |-> items]

\* truthiness as `||` and `if (x)` see it
Truthy(v) ==
    /\ v.t # "undefined"
    /\ v.t # "null"
    /\ v.t # "NaN"
    /\ ~(v.t = "string" /\ v.v = "")
    /\ ~(v.t = "number" /\ v.v = 0)
    /\ ~(v.t = "boolean" /\ v.v = FALSE)

\* a || b
Or(a, b) == IF Truthy(a) THEN a ELSE b

\* v[f] on a value that is neither null nor undefined
Get(v, f) == IF v.t = "object" /\ f \in DOMAIN v THEN v[f] ELSE Undefined

\* v.f raises a TypeError
GetThrows(v) == v.t \in {"undefined", "null"}

\* v?.f
OptGet(v, f) == IF GetThrows(v) THEN Undefined ELSE Get(v, f)

\* a ?? b
Coalesce(a, b) == IF a.t \in {"undefined", "null"} THEN b ELSE a

\* new Error(m): its message is String(m)
Error(m) == [t |-> "Error", message |-> (IF m.t = "string" THEN m.v ELSE m.t)]

(***************************************************************************)
(* Inputs of one call.                                                     *)
(***************************************************************************)
Ids == {"uuid-1", "uuid-2"}
Hosts == {DEFAULT_HOST}
Ports == {DEFAULT_PORT}
Methods == {"get_console_logs"}
Timeouts == {DEFAULT_TIMEOUT, RECOMPILE_TIMEOUT}
Results == {Undefined, Str("result-1")}
Messages == {Undefined, Str(""), Str("boom")}

\* the error field of a reply
ErrorFields ==
    {Undefined, Null, Str("")} \cup
    {[t |-> "object", message |-> m] : m \in Messages}

\* the id field of a reply
IdFields == {Undefined} \cup {Str(i) : i \in Ids}

\* what a text frame parses to
Replies ==
    {[t |-> "object", id |-> i, result |-> r, error |-> e] :
        i \in IdFields, r \in Results, e \in ErrorFields}

\* inbound frames: text that is not JSON, and the JSON texts of null, of a
\* string and of reply objects
Frames ==
    {[json |-> FALSE]} \cup
    {[json |-> TRUE, value |-> v] : v \in {Null, Str("hello")} \cup Replies}

\* the err objects the socket emits
SocketErrors ==
    {[t |-> "object", message |-> m] :
        m \in {Undefined, Str(""), Str("connect ECONNREFUSED")}}

\* `ws://${host}:${port}/McpUnity`
Url(host, port) == "ws://" \o host \o ":" \o ToString(port) \o "/McpUnity"

(***************************************************************************)
(* The command line.  An argument is the tuple of its characters.  The     *)
(* arguments drawn here hold no white space, sign, fraction or exponent.   *)
(***************************************************************************)
NaN == [t |-> "NaN"]

DigitChars == {"0", "1", "2", "3", "4", "5", "6", "7", "8", "9"}

DigitValue(c) ==
    CASE c = "0" -> 0 [] c = "1" -> 1 [] c = "2" -> 2 [] c = "3" -> 3
      [] c = "4" -> 4 [] c = "5" -> 5 [] c = "6" -> 6 [] c = "7" -> 7
      [] c = "8" -> 8 [] c = "9" -> 9

RECURSIVE Decimal(_)
Decimal(val) ==
    IF val = << >>
    THEN 0
    ELSE 10 * Decimal(SubSeq(val, 1, Len(val) - 1)) + DigitValue(val[Len(val)])

\* Number(val)
ToNumber(val) ==
    IF val = << >>
    THEN Num(0)
    ELSE IF \A i \in 1..Len(val) : val[i] \in DigitChars
    THEN Num(Decimal(val))
    ELSE NaN

\* coerce(val)
Coerce(val) ==
    IF val = <<"t", "r", "u", "e">> THEN Bool(TRUE)
    ELSE IF val = <<"f", "a", "l", "s", "e">> THEN Bool(FALSE)
    ELSE IF ToNumber(val) # NaN /\ val # << >> THEN ToNumber(val)
    ELSE [t |-> "string", chars |-> val]

\* key.startsWith('--')
StartsWithDashes(key) == Len(key) >= 2 /\ key[1] = "-" /\ key[2] = "-"

\* key.slice(2)
Slice2(key) == SubSeq(key, 3, Len(key))

NoParams == [name \in {} |-> Undefined]

\* the for loop of parseArgs from index i on; exit: process.exit(1) was
\* reached
RECURSIVE ParseRest(_, _, _, _)
ParseRest(rest, i, params, timeout) ==
    IF i > Len(rest)
    THEN [exit |-> FALSE, params |-> params, timeout |-> timeout]
    ELSE IF ~StartsWithDashes(rest[i]) \/ i + 1 > Len(rest)
    THEN [exit |-> TRUE, params |-> params, timeout |-> timeout]
    ELSE IF Slice2(rest[i]) = <<"t", "i", "m", "e", "o", "u", "t">>
    THEN ParseRest(rest, i + 2, params, ToNumber(rest[i + 1]))
    ELSE ParseRest(rest, i + 2,
                   (Slice2(rest[i]) :> Coerce(rest[i + 1])) @@ params,
                   timeout)

\* parseArgs(process.argv): argv[2] is the command ("" when missing) and
\* argv.slice(3) the rest
ParseArgs(argv) ==
    IF argv.command = "" \/ argv.command \notin COMMANDS
    THEN [exit |-> TRUE, params |-> NoParams, timeout |-> Null]
    ELSE ParseRest(argv.rest, 1, NoParams, Null)

\* const filterWarnError = command === 'get_warn_error_logs'
FilterWarnError(command) == command = "get_warn_error_logs"

\* const method = ...
Method(command) ==
    IF command = "get_logs" \/ FilterWarnError(command)
    THEN "get_console_logs"
    ELSE command

\* const defaultTimeout = ...
DefaultTimeout(command) ==
    IF command = "recompile_scripts" THEN RECOMPILE_TIMEOUT ELSE DEFAULT_TIMEOUT

\* falls back to the default for every falsy timeout (`||` for `??`)
TimeoutMs_OrDefault(command, timeout) ==
    Or(timeout, Num(DefaultTimeout(command))).v

\* const timeoutMs = timeout ?? defaultTimeout
TimeoutMs(command, timeout) ==
    Coalesce(timeout, Num(DefaultTimeout(command))).v

\* the arguments drawn: options --timeout and --limit, values 0 and 5000
OptionArgs ==
    {<<"-", "-", "t", "i", "m", "e", "o", "u", "t">>,
     <<"-", "-", "l", "i", "m", "i", "t">>}
ValueArgs == {<<"0">>, <<"5", "0", "0", "0">>}

\* argv.slice(3): any argument where a key is read, a value where a value
\* is read
ArgLists ==
    {rest \in UNION {[1..n -> OptionArgs \cup ValueArgs] : n \in 0..MaxArgs} :
        \A i \in 1..Len(rest) : i % 2 = 0 => rest[i] \in ValueArgs}

Argvs == [command : COMMANDS \cup {"", "bogus"}, rest : ArgLists]

(***************************************************************************)
(* State.                                                                  *)
(***************************************************************************)
VARIABLES
    call,        \* the arguments of sendRequest and the id it generated
    readyState,  \* ws.readyState
    connections, \* number of new WebSocket(url)
    settled,     \* let settled
    timer,       \* the setTimeout handle: "armed", "fired" or "cleared"
    outcomes,    \* the resolve(...) and reject(...) calls, in order
    sent,        \* the frames given to ws.send
    closeCalls,  \* number of ws.close() calls
    uncaught,    \* a callback ended by an exception nobody caught
    received,    \* number of 'message' events delivered
    hist,        \* the kinds of events delivered so far
    first,       \* the first terminal trigger delivered (history)
    last,        \* the last event delivered (history)
    proc         \* the process around the call: argv, stdout, exit code

vars ==
    <<call, readyState, connections, settled, timer, outcomes, sent,
      closeCalls, uncaught, received, hist, first, last, proc>>

NoEvent == [ev |-> "none"]

\* sendRequest taken on its own, whoever calls it
NoProcess == [state |-> "none"]

Resolve(v) == [type |-> "resolve", value |-> v]
Reject(e) == [type |-> "reject", value |-> e]

\* ws.close() without arguments
WsClose(rs) == IF rs = "CLOSED" THEN "CLOSED" ELSE "CLOSING"

\* JSON.parse(data.toString()) raises a SyntaxError
ParseThrows(data) == ~data.json

\* JSON.parse(data.toString())
Parse(data) == data.value

\* the frame is a reply to this call (history only; the handler compares
\* for itself)
IsMatching(data, id) ==
    /\ data.json
    /\ data.value.t = "object"
    /\ data.value.id = Str(id)

(***************************************************************************)
(* History bookkeeping shared by the actions.                              *)
(***************************************************************************)
Record(e, terminal) ==
    /\ last' = e
    /\ hist' = hist \cup {e.ev}
    /\ first' = IF terminal /\ first = NoEvent
                THEN [e EXCEPT !.opened = "open" \in hist, !.after = received]
                ELSE first

(***************************************************************************)
(* sendRequest up to the return of the promise: the socket is created,     *)
(* the id generated, settled is false, the timer is armed and the four     *)
(* listeners are registered.                                               *)
(***************************************************************************)
\* the timer is not armed by the time the promise is returned
Init_TimerNotArmed ==
    /\ call \in [host : Hosts, port : Ports, method : Methods,
                 params : {[t |-> "object"]}, timeoutMs : Timeouts, id : Ids]
    /\ readyState = "CONNECTING"
    /\ connections = 1
    /\ settled = FALSE
    /\ timer = "idle"
    /\ outcomes = << >>
    /\ sent = << >>
    /\ closeCalls = 0
    /\ uncaught = FALSE
    /\ received = 0
    /\ hist = {}
    /\ first = NoEvent
    /\ last = NoEvent
    /\ proc = NoProcess

Init ==
    /\ call \in [host : Hosts, port : Ports, method : Methods,
                 params : {[t |-> "object"]}, timeoutMs : Timeouts, id : Ids]
    /\ readyState = "CONNECTING"
    /\ connections = 1
    /\ settled = FALSE
    /\ timer = "armed"
    /\ outcomes = << >>
    /\ sent = << >>
    /\ closeCalls = 0
    /\ uncaught = FALSE
    /\ received = 0
    /\ hist = {}
    /\ first = NoEvent
    /\ last = NoEvent
    /\ proc = NoProcess

(***************************************************************************)
(* The setTimeout callback.                                                *)
(***************************************************************************)
\* the callback without its ws.close()
TimerFire_NoClose ==
    /\ timer = "armed"
    /\ timer' = "fired"
    /\ IF ~settled
       THEN /\ settled' = TRUE
            /\ outcomes' = Append(outcomes,
                  Reject(Error(Str("Request timed out after "
                         \o ToString(call.timeoutMs) \o "ms"))))
       ELSE UNCHANGED <<settled, outcomes>>
    /\ Record([ev |-> "timer", opened |-> FALSE, after |-> 0], TRUE)
    /\ UNCHANGED <<proc, call, connections, sent, uncaught, received, readyState,
                   closeCalls>>

TimerFire ==
    /\ timer = "armed"
    /\ timer' = "fired"
    /\ IF ~settled
       THEN /\ settled' = TRUE
            /\ readyState' = WsClose(readyState)
            /\ closeCalls' = closeCalls + 1
            /\ outcomes' = Append(outcomes,
                  Reject(Error(Str("Request timed out after "
                         \o ToString(call.timeoutMs) \o "ms"))))
       ELSE UNCHANGED <<settled, readyState, closeCalls, outcomes>>
    /\ Record([ev |-> "timer", opened |-> FALSE, after |-> 0], TRUE)
    /\ UNCHANGED <<proc, call, connections, sent, uncaught, received>>

(***************************************************************************)
(* ws.on('open')                                                           *)
(***************************************************************************)
\* the open handler generates an id of its own for the frame
OnOpen_FreshId ==
    /\ readyState = "CONNECTING"
    /\ readyState' = "OPEN"
    /\ sent' = Append(sent,
          [id |-> CHOOSE i \in Ids : i # call.id, method |-> call.method,
           params |-> call.params])
    /\ Record([ev |-> "open", opened |-> FALSE, after |-> 0], FALSE)
    /\ UNCHANGED <<proc, call, connections, settled, timer, outcomes, closeCalls,
                   uncaught, received>>

OnOpen ==
    /\ readyState = "CONNECTING"
    /\ readyState' = "OPEN"
    /\ sent' = Append(sent,
          [id |-> call.id, method |-> call.method, params |-> call.params])
    /\ Record([ev |-> "open", opened |-> FALSE, after |-> 0], FALSE)
    /\ UNCHANGED <<proc, call, connections, settled, timer, outcomes, closeCalls,
                   uncaught, received>>

(***************************************************************************)
(* ws.on('message')                                                        *)
(***************************************************************************)
\* clearTimeout(timer)
ClearTimeout(tm) == IF tm = "armed" THEN "cleared" ELSE tm

\* the reply's message is dropped: always the generic text
ReplyOutcome_GenericOnly(response) ==
    IF Truthy(Get(response, "error"))
    THEN Reject(Error(Str("Unity error")))
    ELSE Resolve(Get(response, "result"))

\* resolves with the whole reply instead of its result
ReplyOutcome_WholeReply(response) ==
    IF Truthy(Get(response, "error"))
    THEN Reject(Error(Or(Get(Get(response, "error"), "message"),
                         Str("Unity error"))))
    ELSE Resolve(response)

\* if (response.error) reject(...) else resolve(response.result)
ReplyOutcome(response) ==
    IF Truthy(Get(response, "error"))
    THEN Reject(Error(Or(Get(Get(response, "error"), "message"),
                         Str("Unity error"))))
    ELSE Resolve(Get(response, "result"))

\* the handler without `if (settled) return`
HandleMessage_NoSettledGuard(data) ==
    IF ParseThrows(data) \/ GetThrows(Parse(data))
    THEN UNCHANGED <<settled, timer, readyState, closeCalls, outcomes>>
    ELSE LET response == Parse(data) IN
         IF Get(response, "id") # Str(call.id)
         THEN UNCHANGED <<settled, timer, readyState, closeCalls, outcomes>>
         ELSE /\ settled' = TRUE
              /\ timer' = ClearTimeout(timer)
              /\ readyState' = WsClose(readyState)
              /\ closeCalls' = closeCalls + 1
              /\ outcomes' = Append(outcomes, ReplyOutcome(response))

\* the handler with clearTimeout(timer) ahead of the id comparison
HandleMessage_ClearsEarly(data) ==
    IF settled
    THEN UNCHANGED <<settled, timer, readyState, closeCalls, outcomes>>
    ELSE IF ParseThrows(data) \/ GetThrows(Parse(data))
    THEN UNCHANGED <<settled, timer, readyState, closeCalls, outcomes>>
    ELSE LET response == Parse(data) IN
         IF Get(response, "id") # Str(call.id)
         THEN /\ timer' = ClearTimeout(timer)
              /\ UNCHANGED <<settled, readyState, closeCalls, outcomes>>
         ELSE /\ settled' = TRUE
              /\ timer' = ClearTimeout(timer)
              /\ readyState' = WsClose(readyState)
              /\ closeCalls' = closeCalls + 1
              /\ outcomes' = Append(outcomes, ReplyOutcome(response))

HandleMessage(data) ==
    IF settled
    THEN UNCHANGED <<settled, timer, readyState, closeCalls, outcomes>>
    ELSE IF ParseThrows(data) \/ GetThrows(Parse(data))
    THEN \* the SyntaxError of JSON.parse, or the TypeError of null.id, is
         \* caught by the handler's catch
         UNCHANGED <<settled, timer, readyState, closeCalls, outcomes>>
    ELSE LET response == Parse(data) IN
         IF Get(response, "id") # Str(call.id)
         THEN UNCHANGED <<settled, timer, readyState, closeCalls, outcomes>>
         ELSE /\ settled' = TRUE
              /\ timer' = ClearTimeout(timer)
              /\ readyState' = WsClose(readyState)
              /\ closeCalls' = closeCalls + 1
              /\ outcomes' = Append(outcomes, ReplyOutcome(response))

\* the socket emits 'message' with one of `frames`
Deliver(frames) ==
    /\ readyState \in {"OPEN", "CLOSING"}
    /\ "open" \in hist
    /\ received < MaxFrames
    /\ \E data \in frames :
          /\ HandleMessage(data)
          /\ Record([ev |-> "message", data |-> data, opened |-> FALSE,
                     after |-> 0],
                    IsMatching(data, call.id))
    /\ received' = received + 1
    /\ UNCHANGED <<proc, call, connections, sent, uncaught>>

OnMessage == Deliver(Frames)

(***************************************************************************)
(* ws.on('error')                                                          *)
(***************************************************************************)
\* the handler without the `|| Cannot connect ...` fallback
HandleError_NoFallback(err) ==
    IF ~settled
    THEN /\ settled' = TRUE
         /\ timer' = ClearTimeout(timer)
         /\ outcomes' = Append(outcomes, Reject(Error(Get(err, "message"))))
    ELSE UNCHANGED <<settled, timer, outcomes>>

HandleError(err) ==
    IF ~settled
    THEN /\ settled' = TRUE
         /\ timer' = ClearTimeout(timer)
         /\ outcomes' = Append(outcomes,
               Reject(Error(Or(Get(err, "message"),
                               Str("Cannot connect to Unity at "
                                   \o Url(call.host, call.port))))))
    ELSE UNCHANGED <<settled, timer, outcomes>>

OnError ==
    /\ readyState # "CLOSED"
    /\ readyState' = "CLOSING"
    /\ \E err \in SocketErrors :
          /\ HandleError(err)
          /\ Record([ev |-> "error", err |-> err, opened |-> FALSE,
                     after |-> 0], TRUE)
    /\ UNCHANGED <<proc, call, connections, sent, closeCalls, uncaught, received>>

(***************************************************************************)
(* ws.on('close').  A socket that is still CONNECTING emits 'error' (and   *)
(* becomes CLOSING) before it emits 'close'.                               *)
(***************************************************************************)
\* the handler without `if (!settled)`
HandleClose_NoGuard ==
    /\ settled' = TRUE
    /\ timer' = ClearTimeout(timer)
    /\ outcomes' = Append(outcomes,
          Reject(Error(Str("WebSocket closed before response"))))

\* the handler without clearTimeout(timer)
HandleClose_NoClear ==
    IF ~settled
    THEN /\ settled' = TRUE
         /\ outcomes' = Append(outcomes,
               Reject(Error(Str("WebSocket closed before response"))))
         /\ UNCHANGED timer
    ELSE UNCHANGED <<settled, timer, outcomes>>

HandleClose ==
    IF ~settled
    THEN /\ settled' = TRUE
         /\ timer' = ClearTimeout(timer)
         /\ outcomes' = Append(outcomes,
               Reject(Error(Str("WebSocket closed before response"))))
    ELSE UNCHANGED <<settled, timer, outcomes>>

OnClose ==
    /\ readyState \in {"OPEN", "CLOSING"}
    /\ readyState' = "CLOSED"
    /\ HandleClose
    /\ Record([ev |-> "close", opened |-> FALSE, after |-> 0], TRUE)
    /\ UNCHANGED <<proc, call, connections, sent, closeCalls, uncaught, received>>

Next ==
    \/ TimerFire
    \/ OnOpen
    \/ OnMessage
    \/ OnError
    \/ OnClose

Spec == Init /\ [][Next]_vars

\* a timer that is armed and not cleared fires
LiveSpec == Spec /\ WF_vars(TimerFire)

(***************************************************************************)
(* A socket whose close() may raise.  Spec takes close() never to raise;   *)
(* the two actions below are the timer callback and the message handler    *)
(* run against a close() that raises, which is the case the statements     *)
(* about failing closes speak of.  An exception that leaves a callback     *)
(* uncaught ends the process: nothing runs after it.                       *)
(***************************************************************************)
\* the timer callback: settled is set, ws.close() raises, reject is never
\* reached and the exception leaves the callback
TimerFireCloseRaises ==
    /\ timer = "armed"
    /\ ~settled
    /\ timer' = "fired"
    /\ settled' = TRUE
    /\ closeCalls' = closeCalls + 1
    /\ uncaught' = TRUE
    /\ Record([ev |-> "timer", opened |-> FALSE, after |-> 0,
               closeRaised |-> TRUE], TRUE)
    /\ UNCHANGED <<proc, call, connections, readyState, outcomes, sent, received>>

\* the message handler on a matching reply: settled is set, the timer is
\* cleared, ws.close() raises inside the try and the catch swallows it
\* before resolve or reject is reached
OnMessageCloseRaises ==
    /\ readyState \in {"OPEN", "CLOSING"}
    /\ "open" \in hist
    /\ received < MaxFrames
    /\ ~settled
    /\ \E data \in Frames :
          /\ ~ParseThrows(data)
          /\ ~GetThrows(Parse(data))
          /\ Get(Parse(data), "id") = Str(call.id)
          /\ Record([ev |-> "message", data |-> data, opened |-> FALSE,
                     after |-> 0, closeRaised |-> TRUE], TRUE)
    /\ settled' = TRUE
    /\ timer' = ClearTimeout(timer)
    /\ closeCalls' = closeCalls + 1
    /\ received' = received + 1
    /\ UNCHANGED <<proc, call, connections, readyState, outcomes, sent, uncaught>>

RaisingNext ==
    \/ ~uncaught /\ TimerFire
    \/ ~uncaught /\ OnOpen
    \/ ~uncaught /\ OnMessage
    \/ ~uncaught /\ OnError
    \/ ~uncaught /\ OnClose
    \/ ~uncaught /\ TimerFireCloseRaises
    \/ ~uncaught /\ OnMessageCloseRaises

RaisingSpec == Init /\ [][RaisingNext]_vars

(***************************************************************************)
(* The program: main() around one call.  parseArgs either ends the process *)
(* with code 1 before any call, or hands command, params and timeout to    *)
(* main, which calls sendRequest, awaits the promise, writes one JSON text *)
(* to stdout and ends the process.  The continuation of the await runs     *)
(* once the promise is settled and ends in process.exit, so no callback of *)
(* the call runs after the promise is settled.                             *)
(***************************************************************************)
LogTypes == WARN_ERROR_TYPES \cup {"Log"}

\* the entries of a logs list: objects with a type, and null
LogEntries == {[t |-> "object", type |-> Str(ty)] : ty \in LogTypes} \cup {Null}

LogLists == UNION {[1..n -> LogEntries] : n \in 0..MaxLogs}

\* results with a logs property: a list, or a string
LogResults ==
    {[t |-> "object", logs |-> l] :
        l \in {Array(items) : items \in LogLists} \cup {Str("none")}}

\* the replies the server gives to the call `c`, and one reply to another
\* call
MainReplies(c) ==
    {[t |-> "object", id |-> Str(c.id), result |-> r, error |-> Undefined] :
        r \in Results \cup LogResults}
    \cup
    {[t |-> "object", id |-> Str(c.id), result |-> Undefined,
      error |-> [t |-> "object", message |-> Str("boom")]],
     [t |-> "object", id |-> Undefined, result |-> Str("result-1"),
      error |-> Undefined]}

MainFrames(c) ==
    {[json |-> FALSE]} \cup {[json |-> TRUE, value |-> v] : v \in MainReplies(c)}

\* no sendRequest was called
NoCall == [method |-> "none"]

\* log => WARN_ERROR_TYPES.has(log.type)
HasWarnErrorType(log) ==
    LET type == Get(log, "type")
    IN  type.t = "string" /\ type.v \in WARN_ERROR_TYPES

\* result.logs.filter(...) raises a TypeError: logs has no filter method,
\* or log.type is read on null
FilterThrows(logs) ==
    \/ logs.t # "array"
    \/ \E i \in 1..Len(logs.items) : GetThrows(logs.items[i])

\* the message of that TypeError
FilterErrorText(logs) ==
    IF logs.t # "array"
    THEN "result.logs.filter is not a function"
    ELSE "Cannot read properties of null (reading 'type')"

\* result.logs.filter(log => WARN_ERROR_TYPES.has(log.type))
FilterLogs(logs) == Array(SelectSeq(logs.items, HasWarnErrorType))

\* JSON.stringify(v, null, 2) + '\n': undefined is not serialised, the text
\* is that of `undefined + '\n'`
Stringify(v) ==
    IF v.t = "undefined"
    THEN [text |-> "undefined\n"]
    ELSE [text |-> "json", value |-> v]

\* process.stdout.write(text); process.exit(code)
WriteAndExit(p, text, code) ==
    [p EXCEPT !.stdout = Append(@, text), !.state = "exited", !.code = code]

\* the try block of main after the await, for the value the promise
\* resolved with
MainTry(p, value) ==
    IF FilterWarnError(p.argv.command) /\ Truthy(OptGet(value, "logs"))
    THEN IF FilterThrows(value.logs)
         THEN WriteAndExit(p,
                  Stringify([t |-> "object", error |-> Bool(TRUE),
                             message |-> Str(FilterErrorText(value.logs))]),
                  1)
         ELSE WriteAndExit(p,
                  Stringify([value EXCEPT !.logs = FilterLogs(@)]), 0)
    ELSE WriteAndExit(p, Stringify(value), 0)

\* the catch block of main
MainCatch(p, err) ==
    WriteAndExit(p,
        Stringify([t |-> "object", error |-> Bool(TRUE),
                   message |-> Str(err.message)]),
        1)

\* parseArgs and main up to the await
MainInit ==
    \E argv \in Argvs :
        LET args == ParseArgs(argv)
        IN  /\ settled = FALSE
            /\ outcomes = << >>
            /\ sent = << >>
            /\ closeCalls = 0
            /\ uncaught = FALSE
            /\ received = 0
            /\ hist = {}
            /\ first = NoEvent
            /\ last = NoEvent
            /\ IF args.exit
               THEN /\ proc = [argv |-> argv, state |-> "exited", code |-> 1,
                               stdout |-> << >>]
                    /\ call = NoCall
                    /\ readyState = "NONE"
                    /\ connections = 0
                    /\ timer = "idle"
               ELSE /\ proc = [argv |-> argv, state |-> "running", code |-> 0,
                               stdout |-> << >>]
                    /\ call \in
                         [host : {DEFAULT_HOST}, port : {DEFAULT_PORT},
                          method : {Method(argv.command)},
                          params : {[t |-> "object", props |-> args.params]},
                          timeoutMs : {TimeoutMs(argv.command, args.timeout)},
                          id : Ids]
                    /\ readyState = "CONNECTING"
                    /\ connections = 1
                    /\ timer = "armed"

\* the continuation of `await sendRequest(...)`
MainSettled ==
    /\ proc.state = "running"
    /\ outcomes # << >>
    /\ proc' = IF outcomes[1].type = "resolve"
               THEN MainTry(proc, outcomes[1].value)
               ELSE MainCatch(proc, outcomes[1].value)
    /\ UNCHANGED <<call, readyState, connections, settled, timer, outcomes,
                   sent, closeCalls, uncaught, received, hist, first, last>>

OnMainMessage == Deliver(MainFrames(call))

\* main is at its await
Waiting == proc.state = "running" /\ outcomes = << >>

MainNext ==
    \/ Waiting /\ TimerFire
    \/ Waiting /\ OnOpen
    \/ Waiting /\ OnMainMessage
    \/ Waiting /\ OnError
    \/ Waiting /\ OnClose
    \/ MainSettled

MainSpec == MainInit /\ [][MainNext]_vars

(***************************************************************************)
(* Vocabulary of the claims.                                               *)
(***************************************************************************)
\* the text of `Request timed out after ${timeoutMs}ms`
TimeoutText(ms) ==
    CASE ms = 10000 -> "Request timed out after 10000ms"
      [] ms = 60000 -> "Request timed out after 60000ms"
      [] ms = 5000 -> "Request timed out after 5000ms"
      [] ms = 0 -> "Request timed out after 0ms"

Failure(text) == [type |-> "reject", value |-> [t |-> "Error", message |-> text]]
Success(v) == [type |-> "resolve", value |-> v]
Timeout(ms) == Failure(TimeoutText(ms))

SocketEvents == {"open", "message", "error", "close"}

\* no event of the socket has been delivered yet
Quiet == hist \cap SocketEvents = {}

\* the reply that settled the call, when the first trigger was a reply
FirstReply == first.data.value

(***************************************************************************)
(* C1.  At most one outcome (resolve or reject) is produced per call; once *)
(* one is produced, no later timer fire, frame, error or close changes it, *)
(* and no callback ends in an uncaught exception.                          *)
(***************************************************************************)
C1_SingleSettlement ==
    /\ [](Len(outcomes) <= 1 /\ ~uncaught)
    /\ [][outcomes # << >> => outcomes' = outcomes]_vars

\* an outcome was produced by the timer, and a frame, an error and the close
\* were delivered after it
C1_Witness ==
    /\ Len(outcomes) = 1
    /\ first.ev = "timer"
    /\ last.ev = "close"
    /\ {"message", "error"} \subseteq hist

(***************************************************************************)
(* C2.  With a fair deadline timer every call eventually has exactly one   *)
(* outcome, and keeps it, whatever the socket does (nothing at all, or     *)
(* only frames that are ignored).                                          *)
(***************************************************************************)
C2_EventuallyOutcome == <>[](Len(outcomes) = 1)

\* only ignored frames arrived on the open socket, then the timer fired
C2_Witness ==
    /\ Len(outcomes) = 1
    /\ hist = {"open", "message", "timer"}
    /\ first.ev = "timer"
    /\ first.after = MaxFrames

(***************************************************************************)
(* C3.  When the first terminal trigger is a frame whose id is the call's  *)
(* id and which has no error field, the outcome is Success with exactly    *)
(* that frame's result, however many ignored frames came before it.        *)
(***************************************************************************)
C3_Success ==
    (first.ev = "message" /\ FirstReply.error = Undefined)
        => outcomes = <<Success(FirstReply.result)>>

\* a reply without error field settled the call after two ignored frames
C3_Witness ==
    /\ first.ev = "message"
    /\ FirstReply.error = Undefined
    /\ FirstReply.result = Str("result-1")
    /\ first.after = 2
    /\ Len(outcomes) = 1

(***************************************************************************)
(* C4 as stated.  A matching frame received before settlement with         *)
(* error: {message: X} yields RemoteError(X) for every string X.           *)
(***************************************************************************)
C4_AsStated ==
    (/\ first.ev = "message"
     /\ FirstReply.error.t = "object"
     /\ FirstReply.error.message.t = "string")
        => outcomes = <<Failure(FirstReply.error.message.v)>>

(***************************************************************************)
(* C4 amended.  A matching frame received before settlement with           *)
(* error: {message: X} yields RemoteError(X) for every non-empty string X  *)
(* and RemoteError("Unity error") for the empty string; never Success.     *)
(***************************************************************************)
C4_RemoteError ==
    (/\ first.ev = "message"
     /\ FirstReply.error.t = "object"
     /\ FirstReply.error.message.t = "string")
        => outcomes = <<Failure(IF FirstReply.error.message.v = ""
                                THEN "Unity error"
                                ELSE FirstReply.error.message.v)>>

\* a reply with error: {message: "boom"} settled the call
C4_Witness ==
    /\ first.ev = "message"
    /\ FirstReply.error = [t |-> "object", message |-> Str("boom")]
    /\ Len(outcomes) = 1

(***************************************************************************)
(* C5.  A matching frame in which both result and error are missing or     *)
(* malformed (only {id}; error null or empty) is a remote error with a     *)
(* generic message, not Success.                                           *)
(***************************************************************************)
C5_GenericRemoteError ==
    (/\ first.ev = "message"
     /\ FirstReply.result = Undefined
     /\ FirstReply.error \in
            {Undefined, Null, Str(""), [t |-> "object", message |-> Undefined]})
        => outcomes = <<Failure("Unity error")>>

(***************************************************************************)
(* C6.  When the deadline timer fires while the call is unsettled the      *)
(* outcome is Timeout(timeoutMs), and stays so: a matching frame that      *)
(* arrives afterwards neither resolves the call nor changes the outcome.   *)
(***************************************************************************)
C6_TimeoutPrecedence ==
    first.ev = "timer" => outcomes = <<Timeout(call.timeoutMs)>>

\* the timer fired first and a matching frame was delivered after it
C6_Witness ==
    /\ first.ev = "timer"
    /\ last.ev = "message"
    /\ IsMatching(last.data, call.id)

(***************************************************************************)
(* C7.  The timer is armed from the start of the call, not from 'open':    *)
(* as long as the socket has delivered no event the timer is pending or    *)
(* has produced Timeout(timeoutMs), and a socket that never delivers any   *)
(* event ends in Timeout(timeoutMs).                                       *)
(***************************************************************************)
C7_TimerFromStart ==
    /\ [](Quiet => (timer = "armed" \/ outcomes = <<Timeout(call.timeoutMs)>>))
    /\ <>(~Quiet \/ outcomes = <<Timeout(call.timeoutMs)>>)

\* the timer fired on a socket still connecting that delivered nothing
C7_Witness ==
    /\ hist = {"timer"}
    /\ sent = << >>
    /\ outcomes = <<Timeout(call.timeoutMs)>>

\* the message of the error handler's rejection
TransportText(err) ==
    IF err.message \in {Undefined, Str("")}
    THEN "Cannot connect to Unity at ws://localhost:8090/McpUnity"
    ELSE err.message.v

\* the outcomes the error and close handlers can produce
TransportErrors ==
    {Failure(TransportText(err)) : err \in SocketErrors} \cup
    {Failure("WebSocket closed before response")}

(***************************************************************************)
(* C8 as stated.  If an error event occurs before any open event, the      *)
(* outcome is TransportError and no request frame is ever sent.            *)
(***************************************************************************)
C8_AsStated ==
    ("error" \in hist /\ "open" \notin hist)
        => /\ Len(outcomes) = 1
           /\ outcomes[1] \in TransportErrors
           /\ sent = << >>

(***************************************************************************)
(* C8 amended.  If an error event occurs before any open event and before  *)
(* the deadline timer has fired, the outcome is TransportError (err's      *)
(* message, or "Cannot connect to Unity at <url>" when it has none) and    *)
(* no request frame is ever sent.                                          *)
(***************************************************************************)
C8_TransportFailure ==
    (first.ev = "error" /\ ~first.opened)
        => /\ outcomes = <<Failure(TransportText(first.err))>>
           /\ sent = << >>

\* an error without message settled a call that never opened, then 'close'
C8_Witness ==
    /\ first.ev = "error"
    /\ ~first.opened
    /\ first.err.message = Undefined
    /\ last.ev = "close"
    /\ Len(outcomes) = 1

(***************************************************************************)
(* C9 as stated.  A close event on an unsettled call cancels the timer     *)
(* and yields TransportError("connection closed before response").         *)
(***************************************************************************)
C9_AsStated ==
    first.ev = "close"
        => /\ timer = "cleared"
           /\ outcomes = <<Failure("connection closed before response")>>

(***************************************************************************)
(* C9 amended.  A close event on an unsettled call cancels the timer and   *)
(* yields TransportError("WebSocket closed before response").              *)
(***************************************************************************)
C9_ClosedBeforeResponse ==
    first.ev = "close"
        => /\ timer = "cleared"
           /\ outcomes = <<Failure("WebSocket closed before response")>>

\* the peer closed an open connection before any reply
C9_Witness ==
    /\ first.ev = "close"
    /\ first.opened
    /\ Len(outcomes) = 1

(***************************************************************************)
(* C10 as stated.  Once the call has an outcome, exactly one connection    *)
(* was opened and exactly one close was performed, on every branch.        *)
(***************************************************************************)
C10_AsStated ==
    outcomes # << >> => (connections = 1 /\ closeCalls = 1)

(***************************************************************************)
(* C10 amended.  Exactly one connection is opened per call and at most     *)
(* one close is performed: exactly one when the outcome comes from a       *)
(* matching reply (success or remote error) or from the timeout, none      *)
(* when it comes from an error event or from a close event.                *)
(***************************************************************************)
C10_OneConnectionOneClose ==
    /\ connections = 1
    /\ closeCalls <= 1
    /\ outcomes # << >> =>
          closeCalls = (IF first.ev \in {"timer", "message"} THEN 1 ELSE 0)

\* the timeout closed the connection once and the socket has since closed
C10_Witness ==
    /\ first.ev = "timer"
    /\ last.ev = "close"
    /\ closeCalls = 1
    /\ Len(outcomes) = 1

(***************************************************************************)
(* C11.  No dangling timer: whenever an outcome has been produced the      *)
(* deadline timer is no longer pending (it has fired or been cancelled),   *)
(* whichever of reply, error, close or timeout produced the outcome.       *)
(***************************************************************************)
C11_NoDanglingTimer ==
    outcomes # << >> => timer \in {"fired", "cleared"}

\* an error event settled the call and cancelled the timer
C11_Witness ==
    /\ first.ev = "error"
    /\ timer = "cleared"
    /\ Len(outcomes) = 1

(***************************************************************************)
(* C13.  A frame that is not valid JSON, or whose id is missing or is not  *)
(* the call's id, changes nothing: settled, the timer, the connection,     *)
(* the outcomes, the close calls and the sent frames stay as they were.    *)
(***************************************************************************)
C13_IgnoredFrame ==
    [][(/\ received' = received + 1
        /\ last'.ev = "message"
        /\ ~IsMatching(last'.data, call.id))
          => UNCHANGED <<settled, timer, readyState, outcomes, closeCalls,
                         sent, uncaught>>]_vars

\* two frames were ignored, the last one not JSON: the call is still
\* waiting on an open connection with its timer armed
C13_Witness ==
    /\ received = 2
    /\ last.ev = "message"
    /\ ~last.data.json
    /\ ~settled
    /\ timer = "armed"
    /\ readyState = "OPEN"
    /\ outcomes = << >>

(***************************************************************************)
(* C17.  At most one request frame is sent on a call, exactly one once     *)
(* the connection has opened and none before; it is {id, method, params}   *)
(* of the call, and a reply that settles the call carries the id of the    *)
(* frame that was sent.                                                    *)
(***************************************************************************)
C17_OneRequestFrame ==
    /\ Len(sent) = (IF "open" \in hist THEN 1 ELSE 0)
    /\ sent # << >> =>
          sent[1] = [id |-> call.id, method |-> call.method,
                     params |-> call.params]
    /\ (first.ev = "message" /\ outcomes # << >>) =>
          (sent # << >> /\ FirstReply.id = Str(sent[1].id))

\* the connection opened, one frame was sent and a reply settled the call
C17_Witness ==
    /\ "open" \in hist
    /\ Len(sent) = 1
    /\ first.ev = "message"
    /\ Len(outcomes) = 1

(***************************************************************************)
(* C18.  No request frame is sent once an outcome has been produced: when  *)
(* the timer, an error or a close settles a call that is still connecting  *)
(* nothing is sent afterwards.                                             *)
(***************************************************************************)
C18_NoSendAfterOutcome ==
    /\ [][outcomes # << >> => sent' = sent]_vars
    /\ []((first # NoEvent /\ ~first.opened) => sent = << >>)

\* the timer settled a call that was still connecting; the aborted
\* handshake then reported its error and the socket closed: nothing sent
C18_Witness ==
    /\ first.ev = "timer"
    /\ ~first.opened
    /\ hist = {"timer", "error", "close"}
    /\ sent = << >>

\* what a reply that settles the call may produce
ReplyOutcomes(reply) ==
    {Success(reply.result), Failure("Unity error")} \cup
    (IF reply.error.t = "object" /\ reply.error.message.t = "string"
     THEN {Failure(reply.error.message.v)}
     ELSE {})

(***************************************************************************)
(* C19.  The first terminal trigger decides the outcome, for good: after   *)
(* an error event the outcome is the TransportError of that error, also    *)
(* once the close event has followed; after a timeout it is Timeout;       *)
(* after a close it is the closed-before-response error; after a matching  *)
(* reply it is that reply's success or remote error.                       *)
(***************************************************************************)
C19_FirstEventWins ==
    /\ first.ev = "error" => outcomes = <<Failure(TransportText(first.err))>>
    /\ first.ev = "timer" => outcomes = <<Timeout(call.timeoutMs)>>
    /\ first.ev = "close" =>
          outcomes = <<Failure("WebSocket closed before response")>>
    /\ first.ev = "message" =>
          (Len(outcomes) = 1 /\ outcomes[1] \in ReplyOutcomes(FirstReply))

\* an error with a message settled the call and the close event followed
C19_Witness ==
    /\ first.ev = "error"
    /\ first.err.message = Str("connect ECONNREFUSED")
    /\ last.ev = "close"
    /\ outcomes = <<Failure("connect ECONNREFUSED")>>

(***************************************************************************)
(* C12.  On deadline expiry closing the connection is best-effort: when    *)
(* the close raises, the failure is swallowed (no exception leaves the     *)
(* callback) and the outcome is still Timeout(timeoutMs).                  *)
(***************************************************************************)
C12_CloseFailureSwallowed ==
    (last.ev = "timer" /\ "closeRaised" \in DOMAIN last)
        => (~uncaught /\ outcomes = <<Timeout(call.timeoutMs)>>)

(***************************************************************************)
(* C20.  settled and the outcome stay in step: whenever the handlers have  *)
(* run to their end, settled is true exactly when an outcome has been      *)
(* delivered, also when the close performed by the message handler fails   *)
(* inside its try/catch.                                                   *)
(***************************************************************************)
C20_SettledIffOutcome ==
    ~uncaught => (settled <=> outcomes # << >>)

\* the positions of rest where --timeout is given
TimeoutOptions(rest) ==
    {i \in 1..Len(rest) :
        i % 2 = 1 /\ rest[i] = <<"-", "-", "t", "i", "m", "e", "o", "u", "t">>}

\* the number a value written on the command line stands for
WrittenNumber(val) ==
    CASE val = <<"0">> -> 0
      [] val = <<"5", "0", "0", "0">> -> 5000

\* the timeout C15 states for a command line: the value of --timeout (the
\* last one when it is given more than once), else the command's default
StatedTimeout(argv) ==
    LET given == TimeoutOptions(argv.rest)
    IN  IF given # {}
        THEN WrittenNumber(argv.rest[(CHOOSE i \in given :
                                         \A j \in given : j <= i) + 1])
        ELSE IF argv.command = "recompile_scripts" THEN 60000 ELSE 10000

(***************************************************************************)
(* C15.  The timeout passed to sendRequest is the value of --timeout       *)
(* whenever --timeout is given on the command line, for every command,     *)
(* and otherwise 60000 ms for recompile_scripts and 10000 ms for every     *)
(* other command; it is the duration after which the call times out.       *)
(***************************************************************************)
C15_TimeoutPassed ==
    connections = 1 =>
        /\ call.timeoutMs = StatedTimeout(proc.argv)
        /\ (first # NoEvent /\ first.ev = "timer"
              => outcomes = <<Timeout(StatedTimeout(proc.argv))>>)

C15_Witness ==
    /\ connections = 1
    /\ proc.state = "exited"
    /\ proc.argv.command = "recompile_scripts"
    /\ TimeoutOptions(proc.argv.rest) # {}
    /\ call.timeoutMs = 5000
    /\ outcomes = <<Failure("Request timed out after 5000ms")>>

\* the process has ended after a call of sendRequest
ExitedAfterCall == proc.state = "exited" /\ connections = 1

(***************************************************************************)
(* C14.  The exit code of the process is 0 exactly when the outcome of     *)
(* sendRequest is Success, and 1 for every other outcome (remote error,    *)
(* transport error, timeout), for every command, get_warn_error_logs with  *)
(* its filtered result included.                                           *)
(***************************************************************************)
C14_ExitCode ==
    ExitedAfterCall =>
        /\ Len(outcomes) = 1
        /\ outcomes[1].type = "resolve" => proc.code = 0
        /\ outcomes[1].type = "reject" => proc.code = 1

\* an entry C16 keeps: its type is Warning, Error, Exception or Assert
IsWarningOrError(entry) ==
    /\ entry.t = "object"
    /\ "type" \in DOMAIN entry
    /\ entry.type \in {Str("Warning"), Str("Error"), Str("Exception"),
                       Str("Assert")}

\* the result has a logs list
HasLogsList(value) ==
    /\ value.t = "object"
    /\ "logs" \in DOMAIN value
    /\ value.logs.t = "array"

(***************************************************************************)
(* C16.  For get_warn_error_logs with a Success result that has a logs     *)
(* list, what is written is the result with its logs reduced to the        *)
(* entries whose type is Warning, Error, Exception or Assert, in their     *)
(* original order; for every other command the Success result is written   *)
(* as it was received; the output for a failed call is the error's         *)
(* message, never a filtered result.                                       *)
(***************************************************************************)
C16_FilteredLogs ==
    ExitedAfterCall =>
        LET value == outcomes[1].value
        IN  /\ Len(proc.stdout) = 1
            /\ outcomes[1].type = "resolve"
                 /\ proc.argv.command = "get_warn_error_logs"
                 /\ HasLogsList(value)
               => proc.stdout[1] =
                    [text |-> "json",
                     value |-> [t |-> "object",
                                logs |-> [t |-> "array",
                                          items |-> SelectSeq(value.logs.items,
                                                        IsWarningOrError)]]]
            /\ outcomes[1].type = "resolve"
                 /\ proc.argv.command # "get_warn_error_logs"
               => proc.stdout[1] = Stringify(value)
            /\ outcomes[1].type = "reject"
               => proc.stdout[1] =
                    [text |-> "json",
                     value |-> [t |-> "object", error |-> Bool(TRUE),
                                message |-> Str(value.message)]]

====
